---- MODULE Spec2Model ----
(***************************************************************************)
(* A model of extract.py: the two-pass question extractor.                 *)
(*                                                                         *)
(* Texts are sequences of one-character strings, so that the regular       *)
(* expressions of the source are modelled by what they match, character by *)
(* character.  The PDF libraries (PyMuPDF, pdfplumber) are collaborators:  *)
(* a document is a sequence of pages, a page carries its vector drawings,  *)
(* its ruling lines and its words, and cropping keeps the words whose x    *)
(* lies in the crop box.                                                   *)
(***************************************************************************)
EXTENDS Integers, Sequences, FiniteSets, TLC

VARIABLES
    pc,                 \* position of the run (or of the function under test)
    arg,                \* argument of the function under test
    ret,                \* result of the function under test
    doc,                \* the source document on disk: a sequence of pages
    work,               \* the document PyMuPDF holds open and mutates
    docOpen,            \* the PyMuPDF handle is open
    page_num,           \* pages visited by the mutation pass
    redacted,           \* pages whose redactions have been applied
    purple_images,      \* the extracted marker regions, in extraction order
    temp,               \* the temporary working copy: its state and content
    readerOpen,         \* pdfplumber has opened the working copy
    apage,              \* pages scanned by the analysis pass
    pg,                 \* what the analysis pass did on the page it scanned last
    question_positions, \* number -> [page, y_start, col]
    pages_text,         \* the text of each scanned page
    raw,                \* the extracted full text
    norm,               \* the normalized text
    qlist,              \* the segmented questions kept by main
    output,             \* the records assembled so far
    images_matched,     \* records that carry an image
    out_file,           \* the array written to <base>_output.json
    exc                 \* an exception is propagating

fnVars == <<arg, ret>>

passVars == <<work, docOpen, page_num, redacted, purple_images>>

scanVars == <<readerOpen, apage, pg, question_positions, pages_text, raw>>

asmVars == <<norm, qlist, output, images_matched, out_file>>

vars == <<pc, fnVars, doc, passVars, temp, scanVars, asmVars, exc>>

(***************************************************************************)
(* Characters and sequences                                                *)
(***************************************************************************)
NoVal == "none"

\* no page scanned yet
NoPage == [page |-> 0]

\* nothing written yet
NoFile == [written |-> FALSE, data |-> <<>>]

Min(S) == CHOOSE x \in S : \A y \in S : x <= y

Max(S) == 0 - Min({0 - x : x \in S})

Abs(x) == IF x < 0 THEN -x ELSE x

\* s[i], or "" outside the text (no character class holds "")
At(s, i) == IF i \in 1..Len(s) THEN s[i] ELSE ""

\* Python's \s and str.strip() on the characters the texts are made of
WS == {" ", "\t", "\n", "\r"}

DigitChars == <<"0", "1", "2", "3", "4", "5", "6", "7", "8", "9">>

IsDigit(c) == \E d \in 1..10 : DigitChars[d] = c

DigitVal(c) == (CHOOSE d \in 1..10 : DigitChars[d] = c) - 1

\* int(m.group(1)) on a run of digits
RECURSIVE ParseInt(_)
ParseInt(ds) ==
    IF ds = <<>> THEN 0
    ELSE 10 * ParseInt(SubSeq(ds, 1, Len(ds) - 1)) + DigitVal(ds[Len(ds)])

\* str(n) for n >= 0
RECURSIVE ToDigits(_)
ToDigits(n) ==
    IF n < 10 THEN <<DigitChars[n + 1]>>
    ELSE ToDigits(n \div 10) \o <<DigitChars[(n % 10) + 1]>>

\* the concatenation of pieces[lo] .. pieces[hi]
RECURSIVE Flatten(_, _, _)
Flatten(pieces, lo, hi) ==
    IF lo > hi THEN <<>>
    ELSE IF lo = hi THEN pieces[lo]
    ELSE LET mid == (lo + hi) \div 2
         IN  Flatten(pieces, lo, mid) \o Flatten(pieces, mid + 1, hi)

Concat(pieces) == Flatten(pieces, 1, Len(pieces))

\* s[lo..hi] in 1-based inclusive positions, empty when lo > hi
Slice(s, lo, hi) == IF lo > hi THEN <<>> ELSE SubSeq(s, lo, hi)

\* str.strip()
Strip(s) ==
    LET keep == {i \in 1..Len(s) : s[i] \notin WS}
    IN  IF keep = {} THEN <<>> ELSE SubSeq(s, Min(keep), Max(keep))

\* all texts over alphabet A of length at most n
RECURSIVE TextsUpTo(_, _)
TextsUpTo(A, n) ==
    IF n = 0 THEN {<<>>}
    ELSE LET shorter == TextsUpTo(A, n - 1)
         IN  shorter \cup {Append(t, a) : t \in shorter, a \in A}

(***************************************************************************)
(* normalize_keep_lines                                                    *)
(***************************************************************************)
\* s.replace("\r\n", "\n").replace("\r", "\n")
UnifyNewlines(s) ==
    Concat([i \in 1..Len(s) |->
        IF s[i] = "\r"
        THEN (IF At(s, i + 1) = "\n" THEN <<>> ELSE <<"\n">>)
        ELSE <<s[i]>>])

\* re.sub(r'-\n', '', s)
JoinHyphenBreaks(s) ==
    Concat([i \in 1..Len(s) |->
        IF \/ (s[i] = "-" /\ At(s, i + 1) = "\n")
           \/ (s[i] = "\n" /\ At(s, i - 1) = "-")
        THEN <<>> ELSE <<s[i]>>])

\* re.sub(r'[ \t]+', ' ', s)
CollapseBlanks(s) ==
    Concat([i \in 1..Len(s) |->
        IF s[i] \in {" ", "\t"}
        THEN (IF At(s, i - 1) \in {" ", "\t"} THEN <<>> ELSE <<" ">>)
        ELSE <<s[i]>>])

\* re.sub(r'\n{3,}', '\n\n', s)
CollapseNewlines(s) ==
    Concat([i \in 1..Len(s) |->
        IF s[i] = "\n" /\ At(s, i - 1) = "\n" /\ At(s, i - 2) = "\n"
        THEN <<>> ELSE <<s[i]>>])

\* a match of (?<=\s)ular(?=\s|\n|$) starts at k
UlarAt(s, k) ==
    /\ k >= 2 /\ k + 3 <= Len(s)
    /\ s[k] = "u" /\ s[k + 1] = "l" /\ s[k + 2] = "a" /\ s[k + 3] = "r"
    /\ s[k - 1] \in WS
    /\ (k + 3 = Len(s) \/ s[k + 4] \in WS)

\* re.sub(r'(?<=\s)ular(?=\s|\n|$)', '', s)
RemoveUlar(s) ==
    Concat([i \in 1..Len(s) |->
        IF \E k \in (i - 3)..i : UlarAt(s, k) THEN <<>> ELSE <<s[i]>>])

normalize_keep_lines(s) ==
    Strip(RemoveUlar(CollapseNewlines(CollapseBlanks(
        JoinHyphenBreaks(UnifyNewlines(s))))))

(***************************************************************************)
(* split_questions                                                         *)
(***************************************************************************)
\* the pattern without its (?m) flag: ^ holds at the start of the text only
LineStartOfText(s, p) == p = 1

\* (?m)^ holds before the character at position p (1-based)
LineStart(s, p) == p = 1 \/ At(s, p - 1) = "\n"

\* the first position >= p that holds no character of class C (Len+1 at the end)
RECURSIVE SkipClass(_, _, _)
SkipClass(s, p, C) == IF At(s, p) \in C THEN SkipClass(s, p + 1, C) ELSE p

DigitSet == {DigitChars[d] : d \in 1..10}

\* ^\s*(\d+)\.\s* matched at p: <<first digit, the period, end of the match>>,
\* or <<>> when it does not match there
MarkerAt(s, p) ==
    LET d0 == SkipClass(s, p, WS)
        d1 == SkipClass(s, d0, DigitSet)
    IN  IF LineStart(s, p) /\ d1 > d0 /\ At(s, d1) = "."
        THEN <<d0, d1, SkipClass(s, d1 + 1, WS)>>
        ELSE <<>>

\* pattern.finditer(full_text) over the positions lo..hi, the search standing at
\* pos: the matches found, each <<start, first digit, the period, end>>, and the
\* position where the search stands afterwards.  A match is taken at the first
\* position, at or after pos, where the pattern matches; the search resumes at
\* its end.
RECURSIVE ScanMarkers(_, _, _, _)
ScanMarkers(s, lo, hi, pos) ==
    IF lo > hi THEN [ms |-> <<>>, pos |-> pos]
    ELSE IF lo = hi
    THEN (IF lo >= pos /\ MarkerAt(s, lo) # <<>>
          THEN LET m == MarkerAt(s, lo)
               IN  [ms |-> <<<<lo, m[1], m[2], m[3]>>>>, pos |-> m[3]]
          ELSE [ms |-> <<>>, pos |-> pos])
    ELSE LET mid == (lo + hi) \div 2
             l == ScanMarkers(s, lo, mid, pos)
             r == ScanMarkers(s, mid + 1, hi, l.pos)
         IN  [ms |-> l.ms \o r.ms, pos |-> r.pos]

MarkerMatches(s) == ScanMarkers(s, 1, Len(s), 1).ms

\* the list of (number, trimmed body)
split_questions(full_text) ==
    LET matches == MarkerMatches(full_text)
    IN  [i \in 1..Len(matches) |->
            LET m == matches[i]
                end == IF i + 1 <= Len(matches)
                       THEN matches[i + 1][1] - 1 ELSE Len(full_text)
            IN  <<ParseInt(SubSeq(full_text, m[2], m[3] - 1)),
                  Strip(Slice(full_text, m[4], end))>>]

(***************************************************************************)
(* parse_question_block                                                    *)
(***************************************************************************)
OptLetters == {"a", "b", "c", "d", "e", "f", "A", "B", "C", "D", "E", "F"}

Lower(c) ==
    CASE c = "A" -> "a" [] c = "B" -> "b" [] c = "C" -> "c"
      [] c = "D" -> "d" [] c = "E" -> "e" [] c = "F" -> "f"
      [] OTHER -> c

\* [\s\.]
SepChars == WS \cup {"."}

\* (?:(?<=^)|(?<=[\s\.]))([a-fA-F])\) matches at p
OptStartAt(s, p) ==
    /\ p = 1 \/ At(s, p - 1) \in SepChars
    /\ At(s, p) \in OptLetters
    /\ At(s, p + 1) = ")"

\* the lookahead (?=(?:[\s\.][a-fA-F]\)|$)) holds before position r; without
\* re.MULTILINE, $ holds at the end and before a final line break
OptEndAt(s, r) ==
    \/ At(s, r) \in SepChars /\ At(s, r + 1) \in OptLetters /\ At(s, r + 2) = ")"
    \/ r = Len(s) + 1
    \/ r = Len(s) /\ At(s, r) = "\n"

\* the match of opt_pattern that starts at p: <<p, value start, end>>; \s* is
\* greedy and (.*?) stops at the first position where the lookahead holds
OptMatchAt(s, p) ==
    LET q == SkipClass(s, p + 2, WS)
        r == Min({i \in q..(Len(s) + 1) : OptEndAt(s, i)})
    IN  <<p, q, r>>

\* opt_pattern.findall(qtext) from position pos on
RECURSIVE OptMatches(_, _)
OptMatches(s, pos) ==
    LET starts == {p \in pos..Len(s) : OptStartAt(s, p)}
    IN  IF starts = {} THEN <<>>
        ELSE LET m == OptMatchAt(s, Min(starts))
             IN  <<m>> \o OptMatches(s, m[3])

\* f"alternativa_{letter.lower()}" for the letter c of a match
AltKey(c) ==
    LET l == Lower(c) IN
    CASE l = "a" -> "alternativa_a" [] l = "b" -> "alternativa_b"
      [] l = "c" -> "alternativa_c" [] l = "d" -> "alternativa_d"
      [] l = "e" -> "alternativa_e" [] l = "f" -> "alternativa_f"

\* the alternatives dictionary: key -> stripped value; a later match of the same
\* letter replaces the earlier one
AltDict(s, matches) ==
    LET keys == {AltKey(s[matches[i][1]]) : i \in 1..Len(matches)}
    IN  [k \in keys |->
            LET last == Max({i \in 1..Len(matches) : AltKey(s[matches[i][1]]) = k})
            IN  Strip(Slice(s, matches[last][2], matches[last][3] - 1))]

\* <<enunciado, alternatives>>
parse_question_block(qtext) ==
    LET matches == OptMatches(qtext, 1)
        enunciado == IF matches # <<>>
                     THEN Strip(Slice(qtext, 1, matches[1][1] - 1))
                     ELSE Strip(qtext)
    IN  <<enunciado, AltDict(qtext, matches)>>

(***************************************************************************)
(* wrap_html_paragraphs                                                    *)
(***************************************************************************)
\* text.split("\n\n") from position pos on
RECURSIVE SplitParagraphs(_, _)
SplitParagraphs(s, pos) ==
    LET seps == {i \in pos..(Len(s) - 1) : s[i] = "\n" /\ s[i + 1] = "\n"}
    IN  IF seps = {} THEN <<Slice(s, pos, Len(s))>>
        ELSE LET i == Min(seps)
             IN  <<Slice(s, pos, i - 1)>> \o SplitParagraphs(s, i + 2)

\* the markup is a text whose tags are single elements
wrap_html_paragraphs(text) ==
    LET parts == SplitParagraphs(text, 1)
    IN  Concat([i \in 1..Len(parts) |->
            IF Strip(parts[i]) = <<>> THEN <<>>
            ELSE <<"<p>">> \o Strip(parts[i]) \o <<"</p>">>])

(***************************************************************************)
(* match_image_to_question                                                 *)
(***************************************************************************)
\* the height a question is assumed to have
QHeight == 100

\* the tolerance around the question
MatchMargin == 50

\* the window with its bounds left out
InWindowStrict(candidates, q_y, q_y_end) ==
    {i \in 1..Len(candidates) :
        /\ q_y - MatchMargin < candidates[i].y_center
        /\ candidates[i].y_center < q_y_end + MatchMargin}

\* the candidates inside the window, by their place among the candidates
InWindow(candidates, q_y, q_y_end) ==
    {i \in 1..Len(candidates) :
        /\ q_y - MatchMargin <= candidates[i].y_center
        /\ candidates[i].y_center <= q_y_end + MatchMargin}

\* the image of the first candidate inside the window, or ""
match_image_to_question(q_num, positions, images) ==
    IF q_num \notin DOMAIN positions THEN ""
    ELSE LET q_info == positions[q_num]
             q_y_end == q_info.y_start + QHeight
             candidates == SelectSeq(images,
                 LAMBDA img : img.page = q_info.page /\ img.col_hint = q_info.col)
             hits == InWindow(candidates, q_info.y_start, q_y_end)
         IN  IF hits = {} THEN "" ELSE candidates[Min(hits)].b64

(***************************************************************************)
(* The mutation pass: extract_and_remove_purple_rectangles                 *)
(*                                                                         *)
(* A colour is a sequence of 8-bit channels (the source holds them divided *)
(* by 255), <<>> when absent.  A drawing is [fill, color, rect, img]: rect *)
(* is <<x0, y0, x1, y1>>, <<>> when absent, img the PNG the renderer       *)
(* yields for it once its purple pixels are whitened.  Coordinates are     *)
(* even integers.                                                          *)
(***************************************************************************)
PurpleRGB == <<156, 40, 176>>

\* rgb_distance(color[:3], target) < 0.15 on 8-bit channels:
\* the squared distance is below (0.15 * 255)^2 = 1463.0625
is_purple_color(color) ==
    IF Len(color) < 3 THEN FALSE
    ELSE (color[1] - PurpleRGB[1]) * (color[1] - PurpleRGB[1])
       + (color[2] - PurpleRGB[2]) * (color[2] - PurpleRGB[2])
       + (color[3] - PurpleRGB[3]) * (color[3] - PurpleRGB[3]) <= 1463

\* fill is tried first, then the stroke colour; a drawing without rect is skipped
IsMarker(drawing) ==
    /\ is_purple_color(drawing.fill) \/ is_purple_color(drawing.color)
    /\ drawing.rect # <<>>

\* page_rects of one page: its marker drawings, in object order
PageRects(page) == SelectSeq(page.drawings, IsMarker)

\* the entry appended to purple_images for one marker drawing
RegionOf(drawing, n, page) ==
    [page     |-> n,
     rect     |-> drawing.rect,
     b64      |-> drawing.img,
     y_center |-> (drawing.rect[2] + drawing.rect[4]) \div 2,
     col_hint |-> IF drawing.rect[1] + drawing.rect[3] < page.w
                  THEN "left" ELSE "right"]

PageRegions(page, n) ==
    LET rects == PageRects(page)
    IN  [k \in 1..Len(rects) |-> RegionOf(rects[k], n, page)]

\* a word lies under a redaction rectangle
Covered(word, rect) ==
    /\ rect[1] <= word.x /\ word.x <= rect[3]
    /\ rect[2] <= word.top /\ word.top <= rect[4]

\* page.apply_redactions(): the text under the page's redaction annotations goes
ApplyRedactions(page, rects) ==
    [page EXCEPT !.words = SelectSeq(page.words,
        LAMBDA word : \A k \in 1..Len(rects) : ~Covered(word, rects[k].rect))]

(***************************************************************************)
(* The analysis pass: extract_text_columns_with_positions                  *)
(*                                                                         *)
(* A ruling line is [x0, x1, y0, y1], x0 and x1 each <<x>> or <<>> (None);  *)
(* a word is [text, top, x], the words of a page sorted by top, then by x. *)
(* Page widths are multiples of 100, so that w / 2 and w * 0.01 are        *)
(* integers.                                                               *)
(***************************************************************************)
\* lê no máximo 2 páginas
PageLimit == 2

\* the least gap between the columns
MinGap == 4

\* the footer rule that is ignored
IsFooter(ln, h) == Abs(ln.y1 - ln.y0) < 2 /\ 100 * ln.y0 > 95 * h

\* abs(x0 - x1) < 4 and (y1 - y0) > 0.3 * h and 0.25 * w < x0 < 0.75 * w
IsCentral(ln, w, h) ==
    /\ Abs(ln.x0[1] - ln.x1[1]) < 4
    /\ 10 * (ln.y1 - ln.y0) > 3 * h
    /\ w < 4 * ln.x0[1] /\ 4 * ln.x0[1] < 3 * w

\* candidates: the x0 of the lines kept, in line order
Candidates(lines, w, h) ==
    LET kept == SelectSeq(lines, LAMBDA ln :
                    /\ ln.x0 # <<>> /\ ln.x1 # <<>>
                    /\ ~IsFooter(ln, h)
                    /\ IsCentral(ln, w, h))
    IN  [k \in 1..Len(kept) |-> kept[k].x0[1]]

\* the candidates left unsorted
FirstCandidate(candidates, w) == candidates[1]

\* sorted(candidates, key=lambda x: abs(x - w / 2))[0]: the sort is stable
ClosestToMiddle(candidates, w) ==
    candidates[Min({k \in 1..Len(candidates) :
        \A j \in 1..Len(candidates) :
            Abs(candidates[k] - w \div 2) <= Abs(candidates[j] - w \div 2)})]

FirstSplit(lines, w, h) ==
    IF Candidates(lines, w, h) # <<>>
    THEN ClosestToMiddle(Candidates(lines, w, h), w)
    ELSE w \div 2

\* max(4.0, w * 0.01)
Gap(w) == IF w \div 100 > MinGap THEN w \div 100 ELSE MinGap

\* page.crop(bbox).extract_words(): the words whose x lies in [bx0, bx1]
CropWords(words, bx0, bx1) ==
    SelectSeq(words, LAMBDA word : bx0 <= word.x /\ word.x <= bx1)

\* extract_text() of a word list: a line per top, words joined by a space
WordsText(words) ==
    Concat([k \in 1..Len(words) |->
        (IF k = 1 THEN <<>>
         ELSE IF words[k].top = words[k - 1].top THEN <<" ">> ELSE <<"\n">>)
        \o words[k].text])

\* the two columns cut at split_x: the words, and the text, of each
Columns(page, lo, hi) ==
    LET lw == CropWords(page.words, 0, lo)
        rw == CropWords(page.words, hi, page.w)
    IN  [left_words |-> lw, right_words |-> rw,
         left_text |-> WordsText(lw), right_text |-> WordsText(rw)]

\* the retry at the exact middle is due
NeedsRetry(cols, split_x, w) ==
    /\ Strip(cols.left_text) = <<>> \/ Strip(cols.right_text) = <<>>
    /\ split_x # w \div 2

\* lines 189-239: the split finally used and the columns it gives
SplitPage(page) ==
    LET w == page.w
        first == FirstSplit(page.lines, w, page.h)
        gap == Gap(w)
        cols1 == Columns(page, Max({0, first - gap}), Min({w, first + gap}))
        retry == NeedsRetry(cols1, first, w)
        split_x == IF retry THEN w \div 2 ELSE first
        cols == IF retry THEN Columns(page, split_x - gap, split_x + gap) ELSE cols1
    IN  [split_x |-> split_x, retried |-> retry,
         left_words |-> cols.left_words, right_words |-> cols.right_words,
         left_text |-> cols.left_text, right_text |-> cols.right_text]

\* question_pattern.match(text) with ^\s*(\d+)\.\s: the digits, or <<>>
QuestionToken(text) ==
    LET d0 == SkipClass(text, 1, WS)
        d1 == SkipClass(text, d0, DigitSet)
    IN  IF d1 > d0 /\ At(text, d1) = "." /\ At(text, d1 + 1) \in WS
        THEN SubSeq(text, d0, d1 - 1) ELSE <<>>

\* one loop over a column's words: each matching word sets the entry of its number
IndexColumn(positions, words, i, col) ==
    LET hits == {k \in 1..Len(words) : QuestionToken(words[k].text) # <<>>}
        numOf(k) == ParseInt(QuestionToken(words[k].text))
        nums == {numOf(k) : k \in hits}
    IN  [n \in DOMAIN positions \cup nums |->
            IF n \in nums
            THEN LET last == Max({k \in hits : numOf(k) = n})
                 IN  [page |-> i, y_start |-> words[last].top, col |-> col]
            ELSE positions[n]]

\* the left column, then the right one
IndexPage(positions, sp, i) ==
    IndexColumn(IndexColumn(positions, sp.left_words, i, "left"),
                sp.right_words, i, "right")

\* (left_text.strip() + "\n" + right_text.strip()).strip()
PageText(sp) == Strip(Strip(sp.left_text) \o <<"\n">> \o Strip(sp.right_text))

\* "\n\n".join([p for p in pages_text if p])
JoinPages(texts) ==
    LET kept == SelectSeq(texts, LAMBDA t : t # <<>>)
    IN  Concat([k \in 1..Len(kept) |->
            (IF k = 1 THEN <<>> ELSE <<"\n", "\n">>) \o kept[k]])

(***************************************************************************)
(* Documents                                                               *)
(***************************************************************************)
Word(text, top, x) == [text |-> text, top |-> top, x |-> x]

Ruling(x0, x1, y0, y1) == [x0 |-> x0, x1 |-> x1, y0 |-> y0, y1 |-> y1]

Drawing(fill, color, rect, img) ==
    [fill |-> fill, color |-> color, rect |-> rect, img |-> img]

\* one stroked marker in the left column, between two question starts whose
\* tokens carry the blank that follows the period; "fig" lies under the marker
PagePair ==
    [w |-> 600, h |-> 800,
     drawings |-> <<Drawing(<<>>, PurpleRGB, <<40, 100, 260, 180>>, "imgA")>>,
     lines |-> <<Ruling(<<300>>, <<300>>, 0, 800)>>,
     words |-> <<Word(<<"1", ".", " ">>, 90, 50), Word(<<"A">>, 90, 100),
                 Word(<<"x">>, 90, 400),
                 Word(<<"f", "i", "g">>, 140, 100),
                 Word(<<"2", ".", " ">>, 186, 50), Word(<<"B">>, 186, 100)>>]

\* a black box, a marker filled with a near purple in the right column, a purple
\* path without rectangle; two questions, the first with two alternatives
PagePlain ==
    [w |-> 600, h |-> 800,
     drawings |-> <<Drawing(<<0, 0, 0>>, <<>>, <<40, 500, 260, 600>>, "imgK"),
                    Drawing(<<170, 50, 190>>, <<>>, <<340, 300, 560, 400>>, "imgB"),
                    Drawing(<<>>, PurpleRGB, <<>>, "imgN")>>,
     lines |-> <<>>,
     words |-> <<Word(<<"3", ".">>, 100, 50), Word(<<"Q">>, 100, 100),
                 Word(<<"4", ".">>, 100, 350), Word(<<"R">>, 100, 400),
                 Word(<<"a", ")">>, 120, 50), Word(<<"x">>, 120, 100),
                 Word(<<"b", ")">>, 120, 150), Word(<<"y">>, 120, 200)>>]

PageEmpty == [w |-> 600, h |-> 800, drawings |-> <<>>, lines |-> <<>>, words |-> <<>>]

\* questions on the long page
BigN == 101

\* a page of BigN one-line questions, numbered from 1
PageBig ==
    [w |-> 600, h |-> 800, drawings |-> <<>>, lines |-> <<>>,
     words |-> [j \in 1..(2 * BigN) |->
                   IF j % 2 = 1
                   THEN Word(ToDigits((j + 1) \div 2) \o <<".">>, 6 * ((j + 1) \div 2), 50)
                   ELSE Word(<<"x">>, 6 * (j \div 2), 100)]]

\* pages of a document of main
MaxPages == 2

MainPages == {PagePair, PagePlain, PageEmpty}

MainDocs == (TextsUpTo(MainPages, MaxPages) \ {<<>>}) \cup {<<PageBig>>}

\* ruling lines of a 600 x 800 page: central ones at 280, 310, 300 and 320, one on
\* the edge of the middle half, one slanted by 4, one of 30% of the height, the
\* footer rule, one without x0
SegLib ==
    {Ruling(<<280>>, <<280>>, 0, 800), Ruling(<<310>>, <<310>>, 0, 800),
     Ruling(<<300>>, <<300>>, 0, 800), Ruling(<<320>>, <<320>>, 100, 700),
     Ruling(<<150>>, <<150>>, 0, 800), Ruling(<<300>>, <<304>>, 0, 800),
     Ruling(<<290>>, <<290>>, 0, 240), Ruling(<<100>>, <<500>>, 790, 791),
     Ruling(<<>>, <<290>>, 0, 800)}

\* ruling lines of a page
MaxLines == 2

\* word lists of a 600 x 800 page: both columns filled; a left column that starts
\* right of a ruling at 280; a right column in the gap of the middle; no word;
\* question tokens with and without a blank after the period
GeomWords ==
    {<<Word(<<"7", ".">>, 100, 100), Word(<<"x">>, 100, 500)>>,
     <<Word(<<"7", ".">>, 100, 290), Word(<<"x">>, 100, 500)>>,
     <<Word(<<"8", ".", " ">>, 100, 100), Word(<<"x">>, 100, 304)>>,
     <<>>,
     <<Word(<<"7", ".", " ">>, 100, 100), Word(<<"9", ".">>, 100, 500),
       Word(<<"7", ".", " ">>, 300, 500)>>}

GeomPages ==
    {[w |-> 600, h |-> 800, drawings |-> <<>>, lines |-> l, words |-> ws] :
        l \in TextsUpTo(SegLib, MaxLines), ws \in GeomWords}

\* a narrow page, whose gap is the least gap
PageNarrow ==
    [w |-> 200, h |-> 300, drawings |-> <<>>,
     lines |-> <<Ruling(<<90>>, <<90>>, 0, 300)>>,
     words |-> <<Word(<<"7", ".", " ">>, 50, 88), Word(<<"x">>, 50, 150)>>]

GeomDocs ==
    {<<p>> : p \in GeomPages \cup {PageNarrow}}
    \cup {<<PageNarrow, p>> : p \in {q \in GeomPages : q.lines = <<>>}}

(***************************************************************************)
(* main                                                                    *)
(***************************************************************************)
\* split_questions(norm)[:100]
MaxQuestions == 100

\* the list left whole
KeepAll(questions) == questions

KeepFirst(questions) ==
    SubSeq(questions, 1, Min({MaxQuestions, Len(questions)}))

\* the record appended for one segmented question
RecordOf(q, positions, images) ==
    LET parsed == parse_question_block(q[2])
    IN  [numero_questao |-> q[1],
         enunciado |-> wrap_html_paragraphs(parsed[1]),
         imagem |-> match_image_to_question(q[1], positions, images),
         alternativas |-> [k \in DOMAIN parsed[2] |-> wrap_html_paragraphs(parsed[2][k])],
         alternativa_correta |-> ""]

\* the loop left after its first page
PassDoneEarly(n, total) == n >= 1 \/ n = total

\* the for loop over the pages of the open document is over
PassDone(n, total) == n = total

\* if page_rects: page.apply_redactions()
RedactedAfter(done, n, rects) == IF rects # <<>> THEN done \cup {n} ELSE done

IdleRun ==
    /\ work = <<>> /\ docOpen = FALSE /\ page_num = 0
    /\ redacted = {} /\ purple_images = <<>>
    /\ temp = [state |-> "none", content |-> <<>>]
    /\ readerOpen = FALSE /\ apage = 0 /\ pg = NoPage
    /\ question_positions = <<>> /\ pages_text = <<>> /\ raw = <<>>
    /\ norm = <<>> /\ qlist = <<>> /\ output = <<>> /\ images_matched = 0
    /\ out_file = NoFile /\ exc = FALSE

Init ==
    /\ pc = "start" /\ arg = NoVal /\ ret = NoVal
    /\ doc \in MainDocs
    /\ IdleRun

\* lines 364-371: the path is given and names a file, or main returns 1
CheckArgs ==
    /\ pc = "start"
    /\ \E found \in BOOLEAN : pc' = IF found THEN "open" ELSE "exit1"
    /\ UNCHANGED <<fnVars, doc, passVars, temp, scanVars, asmVars, exc>>

\* line 49: fitz.open(pdf_path)
OpenDoc ==
    /\ pc = "open"
    /\ work' = doc /\ docOpen' = TRUE
    /\ pc' = "mutate"
    /\ UNCHANGED <<fnVars, doc, page_num, redacted, purple_images, temp,
                   scanVars, asmVars, exc>>

\* lines 54-151: one page of the mutation pass
MutatePage ==
    /\ pc = "mutate" /\ ~PassDone(page_num, Len(work))
    /\ LET n == page_num + 1
           rects == PageRects(work[n])
       IN  /\ purple_images' = purple_images \o PageRegions(work[n], n)
           /\ work' = IF rects # <<>>
                      THEN [work EXCEPT ![n] = ApplyRedactions(work[n], rects)]
                      ELSE work
           /\ redacted' = RedactedAfter(redacted, n, rects)
           /\ page_num' = n
    /\ UNCHANGED <<pc, fnVars, doc, docOpen, temp, scanVars, asmVars, exc>>

\* lines 154-155: tempfile.mkstemp, os.close
MakeTemp ==
    /\ pc = "mutate" /\ PassDone(page_num, Len(work))
    /\ temp' = [state |-> "created", content |-> <<>>]
    /\ pc' = "save"
    /\ UNCHANGED <<fnVars, doc, passVars, scanVars, asmVars, exc>>

\* line 156: doc.save(temp_path)
SaveDoc ==
    /\ pc = "save"
    /\ temp' = [state |-> "saved", content |-> work]
    /\ pc' = "close"
    /\ UNCHANGED <<fnVars, doc, passVars, scanVars, asmVars, exc>>

\* lines 157-163: doc.close() and the return to main, into its try block
CloseDoc ==
    /\ pc = "close"
    /\ docOpen' = FALSE
    /\ pc' = "extract"
    /\ UNCHANGED <<fnVars, doc, work, page_num, redacted, purple_images, temp,
                   scanVars, asmVars, exc>>

\* an exception inside extract_and_remove_purple_rectangles: line 374 is outside
\* the try block of main, the exception leaves main
PassFails ==
    /\ pc \in {"open", "mutate", "save", "close"}
    /\ exc' = TRUE
    /\ pc' = "raised"
    /\ UNCHANGED <<fnVars, doc, passVars, temp, scanVars, asmVars>>

\* line 180: pdfplumber.open(path) on the working copy
OpenReader ==
    /\ pc = "extract"
    /\ readerOpen' = TRUE
    /\ pc' = "scan"
    /\ UNCHANGED <<fnVars, doc, passVars, temp, apage, pg, question_positions,
                   pages_text, raw, asmVars, exc>>

\* lines 185-269: one page of the analysis pass
ScanPage ==
    /\ pc = "scan" /\ apage < Min({Len(temp.content), PageLimit})
    /\ LET i == apage + 1
           page == temp.content[i]
           sp == SplitPage(page)
       IN  /\ pg' = [page |-> i, split_x |-> sp.split_x, retried |-> sp.retried,
                     left_words |-> sp.left_words, right_words |-> sp.right_words,
                     left_text |-> sp.left_text, right_text |-> sp.right_text]
           /\ question_positions' = IndexPage(question_positions, sp, i)
           /\ pages_text' = Append(pages_text, PageText(sp))
           /\ apage' = i
    /\ UNCHANGED <<pc, fnVars, doc, passVars, temp, readerOpen, raw, asmVars, exc>>

\* lines 271-275: the with block ends, the page texts are joined
FinishScan ==
    /\ pc = "scan" /\ apage = Min({Len(temp.content), PageLimit})
    /\ readerOpen' = FALSE
    /\ raw' = JoinPages(pages_text)
    /\ pc' = "normalize"
    /\ UNCHANGED <<fnVars, doc, passVars, temp, apage, pg, question_positions,
                   pages_text, asmVars, exc>>

\* line 379
Normalize ==
    /\ pc = "normalize"
    /\ norm' = normalize_keep_lines(raw)
    /\ pc' = "split"
    /\ UNCHANGED <<fnVars, doc, passVars, temp, scanVars, qlist, output,
                   images_matched, out_file, exc>>

\* line 380
Split ==
    /\ pc = "split"
    /\ qlist' = KeepFirst(split_questions(norm))
    /\ pc' = "assemble"
    /\ UNCHANGED <<fnVars, doc, passVars, temp, scanVars, norm, output,
                   images_matched, out_file, exc>>

\* lines 387-405: one turn of the assembly loop
AssembleOne ==
    /\ pc = "assemble" /\ Len(output) < Len(qlist)
    /\ LET rec == RecordOf(qlist[Len(output) + 1], question_positions, purple_images)
       IN  /\ output' = Append(output, rec)
           /\ images_matched' = images_matched + (IF rec.imagem # "" THEN 1 ELSE 0)
    /\ UNCHANGED <<pc, fnVars, doc, passVars, temp, scanVars, norm, qlist,
                   out_file, exc>>

\* lines 407-418: json.dump(output) into <base>_output.json
WriteOutput ==
    /\ pc = "assemble" /\ Len(output) = Len(qlist)
    /\ out_file' = [written |-> TRUE, data |-> output]
    /\ pc' = "finally"
    /\ UNCHANGED <<fnVars, doc, passVars, temp, scanVars, norm, qlist, output,
                   images_matched, exc>>

\* an exception inside the try block: control goes to the finally clause
TryFails ==
    /\ pc \in {"extract", "scan", "normalize", "split", "assemble"}
    /\ exc' = TRUE
    /\ readerOpen' = FALSE
    /\ pc' = "finally"
    /\ UNCHANGED <<fnVars, doc, passVars, temp, apage, pg, question_positions,
                   pages_text, raw, asmVars>>

\* lines 420-426: the working copy is unlinked if it exists; main returns 0, or
\* the exception goes on
Finally ==
    /\ pc = "finally"
    /\ temp' = IF temp.state \in {"created", "saved"}
               THEN [state |-> "deleted", content |-> <<>>] ELSE temp
    /\ pc' = IF exc THEN "raised" ELSE "done"
    /\ UNCHANGED <<fnVars, doc, passVars, scanVars, asmVars, exc>>

Next ==
    \/ CheckArgs \/ OpenDoc \/ MutatePage \/ MakeTemp \/ SaveDoc \/ CloseDoc
    \/ PassFails \/ OpenReader \/ ScanPage \/ FinishScan \/ Normalize \/ Split
    \/ AssembleOne \/ WriteOutput \/ TryFails \/ Finally

Spec == Init /\ [][Next]_vars

\* extract_text_columns_with_positions on a working copy without markers
InitExtract ==
    /\ pc = "extract" /\ arg = NoVal /\ ret = NoVal
    /\ doc \in GeomDocs
    /\ work = doc /\ docOpen = FALSE /\ page_num = Len(doc)
    /\ redacted = {} /\ purple_images = <<>>
    /\ temp = [state |-> "saved", content |-> doc]
    /\ readerOpen = FALSE /\ apage = 0 /\ pg = NoPage
    /\ question_positions = <<>> /\ pages_text = <<>> /\ raw = <<>>
    /\ norm = <<>> /\ qlist = <<>> /\ output = <<>> /\ images_matched = 0
    /\ out_file = NoFile /\ exc = FALSE

NextExtract == OpenReader \/ ScanPage \/ FinishScan

SpecExtract == InitExtract /\ [][NextExtract]_vars

(***************************************************************************)
(* Functions under test, one specification each                            *)
(***************************************************************************)
\* no run of main is in progress
Idle == doc = <<>> /\ IdleRun

MaxNormLen == 5

NormTokens == {<<"a">>, <<"-">>, <<" ">>, <<"\t">>, <<"\r">>, <<"\n">>,
               <<"u", "l", "a", "r">>}

NormInputs == {Concat(t) : t \in TextsUpTo(NormTokens, MaxNormLen)}

InitNorm == pc = "call" /\ arg \in NormInputs /\ ret = NoVal /\ Idle

CallNormalize ==
    /\ pc = "call"
    /\ ret' = normalize_keep_lines(arg)
    /\ pc' = "ret"
    /\ UNCHANGED <<arg, doc, passVars, temp, scanVars, asmVars, exc>>

SpecNorm == InitNorm /\ [][CallNormalize]_vars

\* texts handed to split_questions
MaxSplitLen == 4

\* "1. Stem one. 2. Stem two."
TextOneLine ==
    <<"1", ".", " ", "S", "t", "e", "m", " ", "o", "n", "e", ".", " ",
      "2", ".", " ", "S", "t", "e", "m", " ", "t", "w", "o", ".">>

\* "1. Stem one.\n2. Stem two."
TextTwoLines ==
    <<"1", ".", " ", "S", "t", "e", "m", " ", "o", "n", "e", ".", "\n",
      "2", ".", " ", "S", "t", "e", "m", " ", "t", "w", "o", ".">>

SplitInputs ==
    {TextOneLine, TextTwoLines}
    \cup TextsUpTo({"1", "2", ".", " ", "\n", "x"}, MaxSplitLen)

InitSplit == pc = "call" /\ arg \in SplitInputs /\ ret = NoVal /\ Idle

CallSplit ==
    /\ pc = "call"
    /\ ret' = split_questions(arg)
    /\ pc' = "ret"
    /\ UNCHANGED <<arg, doc, passVars, temp, scanVars, asmVars, exc>>

SpecSplit == InitSplit /\ [][CallSplit]_vars

\* bodies handed to parse_question_block
MaxParseLen == 5

\* "What is 2+2? a) 3 b) 4 c) 5"
TextWhatIs ==
    <<"W", "h", "a", "t", " ", "i", "s", " ", "2", "+", "2", "?", " ",
      "a", ")", " ", "3", " ", "b", ")", " ", "4", " ", "c", ")", " ", "5">>

ParseInputs ==
    {TextWhatIs}
    \cup TextsUpTo({"a", "B", ")", "(", " ", ".", "x"}, MaxParseLen)

InitParse == pc = "call" /\ arg \in ParseInputs /\ ret = NoVal /\ Idle

CallParse ==
    /\ pc = "call"
    /\ ret' = parse_question_block(arg)
    /\ pc' = "ret"
    /\ UNCHANGED <<arg, doc, passVars, temp, scanVars, asmVars, exc>>

SpecParse == InitParse /\ [][CallParse]_vars

\* regions handed to match_image_to_question
MaxImages == 2

ImgNames == <<"img1", "img2", "img3", "img4">>

\* where a region may lie: on the question's page and column at the edges of the
\* window and beyond them, on another page, in the other column
RegionPlaces ==
    {[page |-> 1, col_hint |-> "left", y_center |-> y] :
        y \in {49, 50, 140, 250, 251, 400}}
    \cup {[page |-> 2, col_hint |-> "left", y_center |-> 140],
          [page |-> 1, col_hint |-> "right", y_center |-> 140]}

\* the k-th region of a list carries the k-th image
RegionLists ==
    {[k \in 1..Len(l) |->
        [page |-> l[k].page, col_hint |-> l[k].col_hint,
         y_center |-> l[k].y_center, b64 |-> ImgNames[k]]] :
        l \in TextsUpTo(RegionPlaces, MaxImages)}

QuestionAt100 == [page |-> 1, y_start |-> 100, col |-> "left"]

\* question 1 is asked for: it is indexed, or only question 2 is, or none
PositionIndexes == {<<>>, <<QuestionAt100>>, [n \in {2} |-> QuestionAt100]}

InitMatch ==
    /\ pc = "call" /\ ret = NoVal /\ Idle
    /\ arg \in {[q_num |-> 1, positions |-> p, images |-> l] :
                    p \in PositionIndexes, l \in RegionLists}

CallMatch ==
    /\ pc = "call"
    /\ ret' = match_image_to_question(arg.q_num, arg.positions, arg.images)
    /\ pc' = "ret"
    /\ UNCHANGED <<arg, doc, passVars, temp, scanVars, asmVars, exc>>

SpecMatch == InitMatch /\ [][CallMatch]_vars

(***************************************************************************)
(* Properties                                                              *)
(***************************************************************************)
StemOne == <<"S", "t", "e", "m", " ", "o", "n", "e", ".">>

StemTwo == <<"S", "t", "e", "m", " ", "t", "w", "o", ".">>

\* a numbered marker at the start of a line: optional whitespace, digits, a period
HasLineMarker(s) ==
    \E p \in 1..Len(s), d0 \in 1..Len(s), d1 \in 1..Len(s) :
        /\ p <= d0 /\ d0 < d1
        /\ p = 1 \/ s[p - 1] = "\n"
        /\ \A i \in p..(d0 - 1) : s[i] \in WS
        /\ \A i \in d0..(d1 - 1) : IsDigit(s[i])
        /\ s[d1] = "."

\* digits and a period anywhere in the text
HasMarkerAnywhere(s) ==
    \E d \in 1..(Len(s) - 1) : IsDigit(s[d]) /\ s[d + 1] = "."

\* C4, as stated: "1. Stem one. 2. Stem two." splits into [(1, "Stem one."),
\* (2, "Stem two.")], and a text with no numbered marker gives the empty list.
C4_SplitOneLine ==
    pc = "ret" =>
        /\ arg = TextOneLine => ret = <<<<1, StemOne>>, <<2, StemTwo>>>>
        /\ ~HasMarkerAnywhere(arg) => ret = <<>>

\* C4, amended: a marker counts only at the start of a line.  The two-line text
\* "1. Stem one.\n2. Stem two." splits into [(1, "Stem one."), (2, "Stem two.")],
\* the one-line text into the single entry (1, "Stem one. 2. Stem two."), and a
\* text with no marker at the start of a line gives the empty list.
C4_SplitAtLineStarts ==
    pc = "ret" =>
        /\ arg = TextTwoLines => ret = <<<<1, StemOne>>, <<2, StemTwo>>>>
        /\ arg = TextOneLine =>
               ret = <<<<1, StemOne \o <<" ", "2", ".", " ">> \o StemTwo>>>>
        /\ ~HasLineMarker(arg) => ret = <<>>

C4_Witness == pc = "ret" /\ arg = TextTwoLines /\ Len(ret) = 2

\* C5: normalize_keep_lines is idempotent: normalizing a normalized text
\* changes nothing.
C5_Idempotent == pc = "ret" => normalize_keep_lines(ret) = ret

\* the image the claim describes for question n
FirstFitting(n, positions, images) ==
    IF n \notin DOMAIN positions THEN ""
    ELSE LET q == positions[n]
             fits == {k \in 1..Len(images) :
                         /\ images[k].page = q.page
                         /\ images[k].col_hint = q.col
                         /\ q.y_start - 50 <= images[k].y_center
                         /\ images[k].y_center <= q.y_start + 150}
         IN  IF fits = {} THEN "" ELSE images[Min(fits)].b64

\* C6: match_image_to_question returns "" for a number without position, else the
\* image of the first region in list order on the question's page, with its
\* column, whose y_center lies in [top - 50, top + 150], else "".  A question at
\* page 1, top 100, left, matches a page-1 left region centred at 140 and not one
\* centred at 400.
C6_FirstFittingRegion ==
    pc = "ret" =>
        /\ ret = FirstFitting(arg.q_num, arg.positions, arg.images)
        /\ (/\ arg.positions = <<QuestionAt100>>
            /\ Len(arg.images) = 1
            /\ arg.images[1].page = 1 /\ arg.images[1].col_hint = "left")
           => /\ arg.images[1].y_center = 140 => ret = "img1"
              /\ arg.images[1].y_center = 400 => ret = ""

\* the second region is returned: the first one lies above the window
C6_Witness ==
    /\ pc = "ret" /\ ret = "img2"
    /\ arg.images[1].page = 1 /\ arg.images[1].col_hint = "left"
    /\ arg.images[1].y_center = 49

\* the parse the claim describes: the markers, the stem before the first one, each
\* value up to the next marker
ClaimedParse(s) ==
    LET marks == {p \in 1..Len(s) :
                     /\ s[p] \in OptLetters
                     /\ At(s, p + 1) = ")"
                     /\ p = 1 \/ s[p - 1] \in WS \cup {"."}}
        nextMark(p) == IF \E q \in marks : q > p
                       THEN Min({q \in marks : q > p}) ELSE Len(s) + 1
        value(p) == Strip(Slice(s, p + 2, nextMark(p) - 1))
        keys == {AltKey(s[p]) : p \in marks}
    IN  <<IF marks = {} THEN Strip(s) ELSE Strip(Slice(s, 1, Min(marks) - 1)),
          [k \in keys |-> value(Max({p \in marks : AltKey(s[p]) = k}))]>>

\* C8: parse_question_block splits a body at its option markers: the stem is the
\* trimmed text before the first marker, each value the trimmed text up to the
\* next marker or the end, a repeated letter keeps its last value, a body without
\* marker is all stem; "What is 2+2? a) 3 b) 4 c) 5" gives a -> 3, b -> 4, c -> 5.
C8_ParseAtMarkers ==
    pc = "ret" =>
        /\ ret = ClaimedParse(arg)
        /\ arg = TextWhatIs =>
               ret = <<<<"W", "h", "a", "t", " ", "i", "s", " ", "2", "+", "2", "?">>,
                       [k \in {"alternativa_a", "alternativa_b", "alternativa_c"} |->
                           IF k = "alternativa_a" THEN <<"3">>
                           ELSE IF k = "alternativa_b" THEN <<"4">> ELSE <<"5">>]>>

C2_TempGoneAtExit == pc \in {"done", "raised"} => temp.state \in {"none", "deleted"}

\* the mutation pass is complete: every page visited, the redactions of every page
\* with a marker applied, the document saved into the working copy and closed
MutationComplete ==
    /\ page_num = Len(doc)
    /\ \A n \in 1..Len(doc) :
           (\E k \in 1..Len(doc[n].drawings) : IsMarker(doc[n].drawings[k]))
               => n \in redacted
    /\ temp.state = "saved" /\ temp.content = work
    /\ ~docOpen

\* text extraction has started
ExtractionStarted == readerOpen \/ apage > 0

\* C3: the reader opens the working copy only after the mutation pass is complete,
\* and once text extraction has started no region is extracted and nothing is
\* redacted.
C3_MutationBeforeAnalysis ==
    /\ [](readerOpen => MutationComplete)
    /\ [][ExtractionStarted =>
            /\ purple_images' = purple_images
            /\ redacted' = redacted
            /\ work' = work]_vars

\* the reader is open on a two-page document whose pages both had a marker
C3_Witness == readerOpen /\ Len(doc) = 2 /\ redacted = {1, 2}

\* C7: the array written holds one record per segmented question among the first
\* 100, in the segmenter's order, each with the number of its entry (equal
\* numbers stay separate records) and an empty "alternativa_correta".
C7_OneRecordPerQuestion ==
    out_file.written =>
        LET segs == split_questions(norm)
            data == out_file.data
        IN  /\ Len(data) = Min({100, Len(segs)})
            /\ \A i \in 1..Len(data) :
                   /\ data[i].numero_questao = segs[i][1]
                   /\ data[i].alternativa_correta = ""

\* 100 records are written of more than 100 segmented questions
C7_Witness ==
    /\ out_file.written /\ Len(out_file.data) = 100
    /\ Len(split_questions(norm)) > 100

\* a token of digits and a final period, nothing else
IsNumberDot(text) ==
    /\ Len(text) >= 2 /\ text[Len(text)] = "."
    /\ \A i \in 1..(Len(text) - 1) : IsDigit(text[i])

\* the words of the page scanned last, each with its column
ScannedTokens ==
    {[col |-> "left", word |-> pg.left_words[k]] : k \in 1..Len(pg.left_words)}
    \cup {[col |-> "right", word |-> pg.right_words[k]] : k \in 1..Len(pg.right_words)}

\* C9: after a page is indexed, every word token of its columns made of digits
\* and a period has an entry for its number, with that page and the top and the
\* column of that token, or of another token of the same number.
C9_NumberTokensIndexed ==
    pg.page # 0 =>
        \A t \in ScannedTokens :
            IsNumberDot(t.word.text) =>
                LET n == ParseInt(SubSeq(t.word.text, 1, Len(t.word.text) - 1))
                IN  /\ n \in DOMAIN question_positions
                    /\ question_positions[n].page = pg.page
                    /\ \E u \in ScannedTokens :
                           /\ question_positions[n].y_start = u.word.top
                           /\ question_positions[n].col = u.col

\* C10: the split finally used on a page is the exact middle when no line
\* qualifies; else the qualifying x closest to the middle, unless a column's text
\* is empty there, and then the columns are cut again, once, at the exact middle.
\* The texts and the word lists of both columns are those cut at that split.
C10_SplitPoint ==
    pg.page # 0 =>
        LET page == temp.content[pg.page]
            w == page.w
            mid == w \div 2
            gap == IF w > 400 THEN w \div 100 ELSE 4
            lines == page.lines
            qual == {k \in 1..Len(lines) :
                        /\ lines[k].x0 # <<>> /\ lines[k].x1 # <<>>
                        /\ Abs(lines[k].x0[1] - lines[k].x1[1]) < 4
                        /\ 10 * (lines[k].y1 - lines[k].y0) > 3 * page.h
                        /\ 4 * lines[k].x0[1] > w /\ 4 * lines[k].x0[1] < 3 * w
                        /\ ~(Abs(lines[k].y1 - lines[k].y0) < 2
                             /\ 100 * lines[k].y0 > 95 * page.h)}
            xOf(k) == lines[k].x0[1]
            leftAt(x) == SelectSeq(page.words, LAMBDA word : word.x <= x - gap)
            rightAt(x) == SelectSeq(page.words, LAMBDA word : word.x >= x + gap)
            emptyAt(x) == \/ Strip(WordsText(leftAt(x))) = <<>>
                          \/ Strip(WordsText(rightAt(x))) = <<>>
        IN  /\ qual = {} => pg.split_x = mid /\ ~pg.retried
            /\ qual # {} =>
                   \E k \in qual :
                       /\ \A j \in qual : Abs(xOf(k) - mid) <= Abs(xOf(j) - mid)
                       /\ pg.split_x = IF emptyAt(xOf(k)) THEN mid ELSE xOf(k)
                       /\ pg.retried = (emptyAt(xOf(k)) /\ xOf(k) # mid)
            /\ pg.left_words = leftAt(pg.split_x)
            /\ pg.right_words = rightAt(pg.split_x)
            /\ pg.left_text = WordsText(pg.left_words)
            /\ pg.right_text = WordsText(pg.right_words)

\* the columns were cut again at the middle, and the right one is still empty
C10_Witness ==
    /\ pg.page # 0 /\ pg.retried
    /\ pg.split_x = 300 /\ pg.left_words # <<>> /\ pg.right_words = <<>>

====
